---- MODULE Spec2Model ----
(***************************************************************************)
(* Model of flightradar24/main.py: the fetch client with its retry loop,   *)
(* the aircraft and airport history collectors, the input resolver, the    *)
(* delta computed in main() and the spreadsheet reader/writer.             *)
(*                                                                         *)
(* One run of main() is a walk of pc through                               *)
(*   idle -> login -> airlines -> fleet* -> airport* -> aircraft* -> merge *)
(*        -> done | aborted                                                *)
(* Every HTTP request is one step; the code between two requests belongs   *)
(* to the step of the response that starts it.                             *)
(***************************************************************************)
EXTENDS Integers, Sequences, FiniteSets, TLC

VARIABLES
    pc,                 \* position of main()
    error,              \* the exception that ended the run ("" while none)
    runs,               \* runs of main() started so far
    xlsx,               \* FILEPATH_OUTPUT_XLSX: [exists, rows], rows[1] the header
    raw_inputs,         \* main: raw_inputs
    airlines,           \* main: defined_inputs['airlines']
    aircrafts_to_scrap, \* main: aircrafts_to_scrap
    airports_to_scrap,  \* main: airports_to_scrap
    data_in_xlsx,       \* main: data_in_xlsx
    scrapped_data,      \* main: scrapped_data
    data_to_append,     \* main: data_to_append
    idx,                \* position of the for loop of the current stage
    direction,          \* _get_airport_history: direction
    page,               \* _get_airport_history: page
    total,              \* provider: page count of the schedule being read (0: not yet reported)
    params,             \* get_aircraft_history: params (page, olderThenFlightId, timestamp)
    history,            \* collector: history
    arrivals,           \* get_airport_history: the arrivals operand, held while departures run
    response,           \* collector: the payload of response, while its page is processed
    retry,              \* _get_request: loop variable of the last failed iteration (0: none)
    slept,              \* seconds of time.sleep since the last request was issued
    prev,               \* history variable: [wrote, scrapped] of the last run that ended
    ledger              \* history variable: of the run in progress, the file it found,
                        \* the targets it has collected and the wb.save calls it has made

vars == <<pc, error, runs, xlsx, raw_inputs, airlines, aircrafts_to_scrap,
          airports_to_scrap, data_in_xlsx, scrapped_data, data_to_append, idx,
          direction, page, total, params, history, arrivals, response, retry, slept,
          prev, ledger>>

(***************************************************************************)
(* Bounds of the model.                                                    *)
(***************************************************************************)
\* runs of main() in one behaviour
MaxRuns == 2
\* entries in one page of a response
MaxPageLen == 2
\* pages the aircraft endpoint serves for one registration
MaxAircraftPages == 2
\* largest page count the airport endpoint reports
MaxTotal == 2
\* how far below page 1 an airport fetch is followed
MaxRewind == 2
\* lines of input.txt when the input resolver is checked on its own
MaxTokens == 3

(***************************************************************************)
(* Program constants and Python values.                                    *)
(***************************************************************************)
MAX_RETRIES == 5
RETRY_SLEEP_RANGE == <<30, 60>>
DEFAULT_SLEEP == 1
\* line 191: time.sleep(3)
InterPageSleep == 3
DATE_FROM == "01.01.2023"
None == "None"

Range(s) == {s[i] : i \in 1..Len(s)}

\* The clock of the model ticks twice a day: two timestamps may fall on one date.
TicksPerDay == 2
\* The calendar the model's timestamps fall in, in '%d.%m.%Y' form.
Calendar == <<"31.12.2022", "01.01.2023", "02.01.2023">>

\* datetime.strftime('%d.%m.%Y') of datetime.fromtimestamp(ts)
strftime_date(ts) == Calendar[(ts \div TicksPerDay) + 1]

\* datetime.strptime(s, '%d.%m.%Y'): midnight of that day, as a timestamp
strptime(s) == (CHOOSE d \in 1..Len(Calendar) : Calendar[d] = s) * TicksPerDay - TicksPerDay

\* main: date_from
date_from == strptime(DATE_FROM)

Digits == "0123456789"
TwoDigits(n) == SubSeq(Digits, (n \div 10) + 1, (n \div 10) + 1)
                \o SubSeq(Digits, (n % 10) + 1, (n % 10) + 1)

\* time.strftime('%H:%M', time.gmtime(duration)) if duration else None
flight_time(duration) ==
    IF duration # 0
    THEN TwoDigits((duration \div 3600) % 24) \o ":" \o TwoDigits((duration \div 60) % 60)
    ELSE None

LowerCase == "abcdefghijklmnopqrstuvwxyz"
UpperCase == "ABCDEFGHIJKLMNOPQRSTUVWXYZ"

MapChar(c, from, to) ==
    IF \E i \in 1..Len(from) : SubSeq(from, i, i) = c
    THEN LET i == CHOOSE j \in 1..Len(from) : SubSeq(from, j, j) = c
         IN  SubSeq(to, i, i)
    ELSE c

RECURSIVE MapStr(_, _, _)
MapStr(s, from, to) ==
    IF Len(s) = 0 THEN ""
    ELSE MapChar(SubSeq(s, 1, 1), from, to) \o MapStr(SubSeq(s, 2, Len(s)), from, to)

\* str.upper(), str.lower()
upper(s) == MapStr(s, LowerCase, UpperCase)
lower(s) == MapStr(s, UpperCase, LowerCase)

\* str.startswith
startswith(s, prefix) == Len(s) >= Len(prefix) /\ SubSeq(s, 1, Len(prefix)) = prefix

\* f'{city} ({iata})'
city_iata(a) == a.city \o " (" \o a.iata \o ")"

(***************************************************************************)
(* What the provider can answer.  An entry is one element of a page's      *)
(* 'data' list.  Timestamps and durations are integers, 0 standing for a   *)
(* JSON null; an airport object is <<>> (null) or <<[city, iata]>>.        *)
(***************************************************************************)
eLanded == [id |-> "f3", status |-> "Landed 10:00", departure |-> 3, updated |-> 3,
            duration |-> 5400, origin |-> <<[city |-> "Sochi", iata |-> "AER"]>>,
            destination |-> <<>>, number |-> "SU100", registration |-> "N1",
            airline |-> "Aero", model |-> "A320"]
\* the same movement reported with another id and another time of the same day
eTwin == [eLanded EXCEPT !.id = "f2", !.departure = 2]
\* a movement of the day before DATE_FROM
eOld == [eLanded EXCEPT !.id = "f1", !.departure = 1]
eScheduled == [eLanded EXCEPT !.id = "f4", !.status = "Scheduled", !.departure = 1]
eEstimated == [eLanded EXCEPT !.id = "f5", !.status = "Estimated dep 10:05", !.departure = 1]
\* a movement under way, as the airport schedule lists it
eEstimatedToday == [eLanded EXCEPT !.id = "f7", !.status = "Estimated 10:40"]
\* no scheduled departure: only the last-updated timestamp dates it
eNoDeparture == [eLanded EXCEPT !.id = "f6", !.departure = 0, !.updated = 1]

\* no scheduled departure, last updated on the day of eLanded
eNoDepartureToday == [eLanded EXCEPT !.id = "f8", !.departure = 0, !.updated = 2]

Entries == {eLanded, eTwin, eOld, eScheduled, eEstimated, eNoDeparture}

\* the aircraft endpoint: an entry may lack its scheduled departure (line 145)
AircraftEntries == Entries \cup {eNoDepartureToday}

AirportEntries == Entries \cup {eEstimatedToday}

\* every 'data' list of at most MaxPageLen entries
PagesOf(entries) == UNION {[1..n -> entries] : n \in 0..MaxPageLen}

\* result.response of flight/list.json when page `p` is asked for:
\* data null, or a list and the page.more flag
AircraftResponses(p) ==
    {[nodata |-> TRUE, data |-> <<>>, more |-> FALSE]}
    \cup {[nodata |-> FALSE, data |-> d, more |-> m] :
            d \in PagesOf(AircraftEntries), m \in (IF p < MaxAircraftPages THEN BOOLEAN ELSE {FALSE})}

\* aircraftInfo of flight/list.json
AircraftInfo == [airline |-> "Aero", model |-> "A320"]

\* airport.pluginData.details of airport.json
AirportDetails(airport_code) ==
    [name |-> "Sheremetyevo", iata |-> upper(airport_code), icao |-> "UUEE"]

\* the schedule of airport.json when page `p` is asked for, the provider
\* reporting the page asked for as the current one and `n` as the page count
AirportResponses(p, n) ==
    {[data |-> d, current |-> p, total |-> n] : d \in PagesOf(AirportEntries)}

\* the table scraped by get_existing_airlines
ExistingAirlines == << <<"Aero", "/data/airlines/aero-afl">>,
                       <<"AERO", "/data/airlines/aero-2">> >>

\* the registrations scraped by get_airline_fleet
Fleet(airline_href) == IF airline_href = "/data/airlines/aero-afl" THEN <<"n1">> ELSE <<"n2">>

\* the contents input.txt can have, after get_raw_inputs
InputLists == { <<>>, <<"n1">>, <<"n1", "n1">>, <<"n1", "aero">> }

\* the contents input_airports.txt can have, after line 349 (split('\n') of
\* any text yields at least one element)
AirportLists == { <<"svo">> }

(***************************************************************************)
(* get_aircraft_history: the body of the for loop over one page.           *)
(***************************************************************************)
\* line 140: the statuses the aircraft collector skips
AircraftSkips(text_status) == text_status \in {"Scheduled"}

\* lines 143-148: the datetime of an entry
AircraftDate(d) == IF d.departure # 0 THEN d.departure ELSE d.updated

\* mutant of BeforeEarliest: the comparison is turned round
BeforeEarliest_Reversed(date, earliest_date) == earliest_date # 0 /\ date > earliest_date

\* line 150 and line 231: the date boundary
BeforeEarliest(date, earliest_date) == earliest_date # 0 /\ date < earliest_date

\* lines 155-167: the descriptor of an entry's airport
Descriptor(a) == IF a # <<>> THEN city_iata(a[1]) ELSE None

\* lines 169-179
AircraftFlight(aircraft_number, aircraft, d) ==
    ("NUMBER" :> upper(aircraft_number)) @@ ("AIRLINE" :> aircraft.airline)
    @@ ("MODEL" :> aircraft.model) @@ ("DATE" :> strftime_date(AircraftDate(d)))
    @@ ("FROM" :> Descriptor(d.origin)) @@ ("TO" :> Descriptor(d.destination))
    @@ ("FLIGHT" :> d.number) @@ ("FLIGHT TIME" :> flight_time(d.duration))
    @@ ("STATUS" :> d.status)

\* mutant of AddFlight: the flight is appended without a look at history
AddFlight_Always(hist, flight) == Append(hist, flight)

\* lines 180-183 and 249-250: append unless already in history
AddFlight(hist, flight) == IF flight \in Range(hist) THEN hist ELSE Append(hist, flight)

\* mutant of AircraftLoop: an entry before the boundary is passed over (continue)
RECURSIVE AircraftLoop_Filter(_, _, _, _, _)
AircraftLoop_Filter(aircraft_number, earliest_date, data, k, hist) ==
    IF k > Len(data) THEN [history |-> hist, returned |-> FALSE]
    ELSE IF AircraftSkips(data[k].status)
            \/ BeforeEarliest(AircraftDate(data[k]), earliest_date)
         THEN AircraftLoop_Filter(aircraft_number, earliest_date, data, k + 1, hist)
    ELSE AircraftLoop_Filter(aircraft_number, earliest_date, data, k + 1,
                      AddFlight(hist, AircraftFlight(aircraft_number, AircraftInfo, data[k])))

\* lines 138-183: the loop from entry k on; `returned` says line 151 was reached
RECURSIVE AircraftLoop(_, _, _, _, _)
AircraftLoop(aircraft_number, earliest_date, data, k, hist) ==
    IF k > Len(data) THEN [history |-> hist, returned |-> FALSE]
    ELSE IF AircraftSkips(data[k].status)
         THEN AircraftLoop(aircraft_number, earliest_date, data, k + 1, hist)
    ELSE IF BeforeEarliest(AircraftDate(data[k]), earliest_date)
         THEN [history |-> hist, returned |-> TRUE]
    ELSE AircraftLoop(aircraft_number, earliest_date, data, k + 1,
                      AddFlight(hist, AircraftFlight(aircraft_number, AircraftInfo, data[k])))

\* mutant of NoData: what was accumulated is returned
NoData_History(hist) == hist

\* lines 135-136: what the collector returns when data['data'] is None
NoData(hist) == <<>>

\* lines 186-190: the parameters of the next request
NextParams(prm, data) ==
    LET last == data[Len(data)]
    IN  [page |-> prm.page + 1,
         olderThenFlightId |-> last.id,
         timestamp |-> IF last.departure # 0 THEN last.departure ELSE prm.timestamp]

\* lines 113-122: the parameters of the first request ("" and 0: the empty string)
FirstParams == [page |-> 1, olderThenFlightId |-> "", timestamp |-> 0]

(***************************************************************************)
(* _get_airport_history: the body of the for loop over one page.           *)
(***************************************************************************)
\* mutant of AirportSkips: only "Scheduled" is skipped
AirportSkips_ScheduledOnly(text_status) == text_status = "Scheduled"

\* line 228: the statuses the airport collector skips
AirportSkips(text_status) == text_status = "Scheduled" \/ startswith(text_status, "Estimated")

\* mutant of parse_origin_and_destination: the two directions change places
parse_origin_and_destination_Reversed(d, airport, dir) ==
    LET own == airport.name \o " (" \o airport.iata \o "/" \o airport.icao \o ")"
    IN  IF dir = "arrivals"
        THEN <<own, Descriptor(d.destination)>>
        ELSE <<Descriptor(d.origin), own>>

\* lines 256-280
parse_origin_and_destination(d, airport, dir) ==
    LET own == airport.name \o " (" \o airport.iata \o "/" \o airport.icao \o ")"
    IN  IF dir = "arrivals"
        THEN <<Descriptor(d.origin), own>>
        ELSE <<own, Descriptor(d.destination)>>

\* lines 237-247
AirportFlight(d, airport, dir) ==
    LET od == parse_origin_and_destination(d, airport, dir)
    IN  ("NUMBER" :> d.registration) @@ ("AIRLINE" :> d.airline)
        @@ ("MODEL" :> d.model) @@ ("DATE" :> strftime_date(d.departure))
        @@ ("FROM" :> od[1]) @@ ("TO" :> od[2])
        @@ ("FLIGHT" :> d.number) @@ ("FLIGHT TIME" :> flight_time(d.duration))
        @@ ("STATUS" :> d.status)

\* lines 223-250: the loop from entry k on; `returned` says line 232 was reached,
\* `raised` that datetime.fromtimestamp(None) of line 226 raised
RECURSIVE AirportLoop(_, _, _, _, _, _)
AirportLoop(airport, dir, earliest_date, data, k, hist) ==
    IF k > Len(data) THEN [history |-> hist, returned |-> FALSE, raised |-> FALSE]
    ELSE IF data[k].departure = 0
         THEN [history |-> hist, returned |-> FALSE, raised |-> TRUE]
    ELSE IF AirportSkips(data[k].status)
         THEN AirportLoop(airport, dir, earliest_date, data, k + 1, hist)
    ELSE IF BeforeEarliest(data[k].departure, earliest_date)
         THEN [history |-> hist, returned |-> TRUE, raised |-> FALSE]
    ELSE AirportLoop(airport, dir, earliest_date, data, k + 1,
                     AddFlight(hist, AirportFlight(data[k], airport, dir)))

\* line 252: the last page
LastPage(resp) == resp.current = resp.total

\* line 254: the page asked for next
NextPage(p) == p - 1

(***************************************************************************)
(* define_inputs_type, read_from_excel, write_to_excel, the delta.         *)
(***************************************************************************)
\* mutant of FindAirline: a name that begins with the line matches
RECURSIVE FindAirline_Prefix(_, _, _)
FindAirline_Prefix(existing_airlines, line, k) ==
    IF k > Len(existing_airlines) THEN <<>>
    ELSE IF startswith(lower(existing_airlines[k][1]), line) THEN existing_airlines[k]
    ELSE FindAirline_Prefix(existing_airlines, line, k + 1)

\* lines 291-294: the first known airline whose lower-cased name is the line, or <<>>
RECURSIVE FindAirline(_, _, _)
FindAirline(existing_airlines, line, k) ==
    IF k > Len(existing_airlines) THEN <<>>
    ELSE IF lower(existing_airlines[k][1]) = line THEN existing_airlines[k]
    ELSE FindAirline(existing_airlines, line, k + 1)

\* lines 283-300
RECURSIVE define_inputs_type(_, _)
define_inputs_type(existing_airlines, inputs) ==
    IF inputs = <<>> THEN [aircrafts |-> <<>>, airlines |-> <<>>]
    ELSE LET rest == define_inputs_type(existing_airlines, SubSeq(inputs, 1, Len(inputs) - 1))
             line == inputs[Len(inputs)]
             airline == FindAirline(existing_airlines, line, 1)
         IN  IF airline # <<>>
             THEN [rest EXCEPT !.airlines = Append(@, airline)]
             ELSE [rest EXCEPT !.aircrafts = Append(@, line)]

\* the keys of a flight dict, in insertion order (lines 169-179, 237-247)
Keys == <<"NUMBER", "AIRLINE", "MODEL", "DATE", "FROM", "TO", "FLIGHT", "FLIGHT TIME", "STATUS">>

\* mutant of Values: FROM and TO change places
Values_Swapped(d) ==
    [i \in 1..Len(Keys) |-> d[IF Keys[i] = "FROM" THEN "TO"
                               ELSE IF Keys[i] = "TO" THEN "FROM" ELSE Keys[i]]]

\* line 327: list(d.values())
Values(d) == [i \in 1..Len(Keys) |-> d[Keys[i]]]

\* line 313: {k: v for k, v in zip(rows[0], row)}
ZipRow(header, row) ==
    LET n == IF Len(header) < Len(row) THEN Len(header) ELSE Len(row)
    IN  [k \in {header[i] : i \in 1..n} |->
            row[CHOOSE i \in 1..n : header[i] = k /\ \A j \in (i + 1)..n : header[j] # k]]

\* lines 310-313
read_from_excel(file) == [i \in 1..(Len(file.rows) - 1) |-> ZipRow(file.rows[1], file.rows[i + 1])]

\* lines 326-327: the rows appended for data
RECURSIVE Rows(_)
Rows(data) == IF data = <<>> THEN <<>> ELSE <<Values(Head(data))>> \o Rows(Tail(data))

\* mutant of DataToAppend: a flight already taken is not taken again
RECURSIVE DataToAppend_Dedup(_, _)
DataToAppend_Dedup(scrapped, existing) ==
    IF scrapped = <<>> THEN <<>>
    ELSE LET rest == DataToAppend_Dedup(SubSeq(scrapped, 1, Len(scrapped) - 1), existing)
             flight == scrapped[Len(scrapped)]
         IN  IF flight \notin Range(existing) /\ flight \notin Range(rest)
             THEN Append(rest, flight) ELSE rest

\* lines 371-373
RECURSIVE DataToAppend(_, _)
DataToAppend(scrapped, existing) ==
    IF scrapped = <<>> THEN <<>>
    ELSE LET rest == DataToAppend(SubSeq(scrapped, 1, Len(scrapped) - 1), existing)
             flight == scrapped[Len(scrapped)]
         IN  IF flight \notin Range(existing) THEN Append(rest, flight) ELSE rest

(***************************************************************************)
(* The state after construction: nothing has run, output.xlsx is absent.   *)
(***************************************************************************)
NoError == [kind |-> "", at |-> ""]
NoFile == [exists |-> FALSE, rows |-> <<>>]
NoResponse == [data |-> <<>>]

Init ==
    /\ pc = "idle" /\ error = NoError /\ runs = 0
    /\ xlsx = NoFile
    /\ raw_inputs = <<>> /\ airlines = <<>>
    /\ aircrafts_to_scrap = <<>> /\ airports_to_scrap = <<>>
    /\ data_in_xlsx = <<>> /\ scrapped_data = <<>> /\ data_to_append = <<>>
    /\ idx = 0 /\ direction = "" /\ page = 1 /\ total = 0
    /\ params = FirstParams /\ history = <<>> /\ arrivals = <<>>
    /\ response = NoResponse /\ retry = 0 /\ slept = 0
    /\ prev = [wrote |-> FALSE, scrapped |-> <<>>]
    /\ ledger = [xlsx |-> NoFile, saves |-> 0, collected |-> 0]

\* an exception leaves main(): the run is over, nothing else changes
Raise(kind) == pc' = "aborted" /\ error' = [kind |-> kind, at |-> pc]

\* lines 332-338: main() starts; get_raw_inputs raises when input.txt is missing
StartRun ==
    /\ pc \in {"idle", "done", "aborted"}
    /\ runs < MaxRuns
    /\ runs' = runs + 1
    /\ \/ /\ Raise("FileNotFoundError")
          /\ raw_inputs' = <<>>
       \/ /\ \E inputs \in InputLists : raw_inputs' = inputs
          /\ pc' = "login"
          /\ error' = NoError
    /\ airlines' = <<>> /\ aircrafts_to_scrap' = <<>> /\ airports_to_scrap' = <<>>
    /\ data_in_xlsx' = <<>> /\ scrapped_data' = <<>> /\ data_to_append' = <<>>
    /\ idx' = 0 /\ direction' = "" /\ page' = 1 /\ total' = 0
    /\ params' = FirstParams /\ history' = <<>> /\ arrivals' = <<>> /\ retry' = 0
    /\ response' = NoResponse /\ slept' = 0
    /\ ledger' = [xlsx |-> xlsx, saves |-> 0, collected |-> 0]
    /\ UNCHANGED <<xlsx, prev>>

\* lines 51-74, 338: login
Login ==
    /\ pc = "login"
    /\ \E status_ok \in BOOLEAN :
          IF status_ok THEN pc' = "airlines" /\ error' = NoError
          ELSE Raise("Logging failed")
    /\ UNCHANGED <<runs, xlsx, raw_inputs, airlines, aircrafts_to_scrap, airports_to_scrap,
                   data_in_xlsx, scrapped_data, data_to_append, idx, direction, page,
                   total, params, history, arrivals, response, retry, slept, prev, ledger>>

(***************************************************************************)
(* _get_request.  A call is in progress whenever pc is one of Requesting;  *)
(* retry counts its requests answered with a non-success status.           *)
(***************************************************************************)
Requesting == {"airlines", "fleet", "airport", "aircraft"}

\* mutant of RetryRange: one iteration more
RetryRange_OneMore(retries) == 1..(retries + 1)

\* line 83: range(1, retries+1)
RetryRange(retries) == 1..retries

\* line 88: random.randint(*sleep_range), its two ends standing for the range
RetrySleeps == {RETRY_SLEEP_RANGE[1], RETRY_SLEEP_RANGE[2]}

\* the call can issue its next request
CanRequest == pc \in Requesting /\ (retry + 1) \in RetryRange(MAX_RETRIES)

\* lines 84-91: a request answered with a non-success status; after the
\* last iteration of the loop line 91 raises, and nothing in main() catches it
FailedAttempt ==
    /\ CanRequest
    /\ retry' = retry + 1
    /\ slept' \in RetrySleeps
    /\ IF (retry + 2) \in RetryRange(MAX_RETRIES)
       THEN UNCHANGED <<pc, error>>
       ELSE Raise("Failed retries")
    /\ UNCHANGED <<runs, xlsx, raw_inputs, airlines, aircrafts_to_scrap, airports_to_scrap,
                   data_in_xlsx, scrapped_data, data_to_append, idx, direction, page,
                   total, params, history, arrivals, response, prev, ledger>>

(***************************************************************************)
(* main(), lines 341-356: resolve the inputs, expand the fleets, read the  *)
(* airports and the stored dataset.                                        *)
(***************************************************************************)
\* the stage of the first target
FirstStage(airports, aircrafts) ==
    IF airports # <<>> THEN "airport" ELSE IF aircrafts # <<>> THEN "aircraft" ELSE "merge"

\* lines 349-359, entered with the final aircrafts_to_scrap
BeginCollection(aircrafts) ==
    /\ aircrafts_to_scrap' = aircrafts
    /\ \E airports \in AirportLists :
          /\ airports_to_scrap' = airports
          /\ pc' = FirstStage(airports, aircrafts)
          /\ direction' = IF airports # <<>> THEN "arrivals" ELSE ""
    /\ idx' = 1
    /\ data_in_xlsx' = IF xlsx.exists THEN read_from_excel(xlsx) ELSE <<>>

\* lines 93-104 and 341-344: the airlines table arrives
AirlinesResponse ==
    /\ pc = "airlines" /\ CanRequest
    /\ LET defined_inputs == define_inputs_type(ExistingAirlines, raw_inputs)
       IN  /\ airlines' = defined_inputs.airlines
           /\ IF defined_inputs.airlines # <<>>
              THEN /\ pc' = "fleet" /\ idx' = 1
                   /\ aircrafts_to_scrap' = defined_inputs.aircrafts
                   /\ UNCHANGED <<airports_to_scrap, direction, data_in_xlsx>>
              ELSE BeginCollection(defined_inputs.aircrafts)
    /\ retry' = 0 /\ slept' = 0
    /\ UNCHANGED <<error, runs, xlsx, raw_inputs, scrapped_data, data_to_append, page,
                   total, params, history, arrivals, response, prev, ledger>>

\* lines 106-109 and 345-348: the fleet of airlines[idx] arrives
FleetResponse ==
    /\ pc = "fleet" /\ CanRequest
    /\ LET airline_fleet == Fleet(airlines[idx][2])
       IN  IF idx < Len(airlines)
           THEN /\ idx' = idx + 1
                /\ aircrafts_to_scrap' = aircrafts_to_scrap \o airline_fleet
                /\ UNCHANGED <<pc, airports_to_scrap, direction, data_in_xlsx>>
           ELSE BeginCollection(aircrafts_to_scrap \o airline_fleet)
    /\ retry' = 0 /\ slept' = 0
    /\ UNCHANGED <<error, runs, xlsx, raw_inputs, airlines, scrapped_data, data_to_append,
                   page, total, params, history, arrivals, response, prev, ledger>>

(***************************************************************************)
(* main(), lines 361-369: the two loops over the targets.                  *)
(***************************************************************************)
\* line 363 and what follows it: airport idx is collected
AirportCollected(airport_flights) ==
    /\ scrapped_data' = scrapped_data \o airport_flights
    /\ slept' = slept + DEFAULT_SLEEP
    /\ ledger' = [ledger EXCEPT !.collected = @ + 1]
    /\ IF idx < Len(airports_to_scrap)
       THEN /\ idx' = idx + 1 /\ direction' = "arrivals" /\ pc' = "airport"
       ELSE /\ idx' = 1 /\ direction' = ""
            /\ pc' = FirstStage(<<>>, aircrafts_to_scrap)

\* mutant of AircraftCollected: the loop is left after its first aircraft
AircraftCollected_Break(aircraft_flights) ==
    /\ scrapped_data' = scrapped_data \o aircraft_flights
    /\ slept' = slept + DEFAULT_SLEEP
    /\ ledger' = [ledger EXCEPT !.collected = @ + 1]
    /\ history' = <<>>
    /\ params' = FirstParams
    /\ idx' = idx /\ pc' = "merge"

\* line 368 and what follows it: aircraft idx is collected
AircraftCollected(aircraft_flights) ==
    /\ scrapped_data' = scrapped_data \o aircraft_flights
    /\ slept' = slept + DEFAULT_SLEEP
    /\ ledger' = [ledger EXCEPT !.collected = @ + 1]
    /\ history' = <<>>
    /\ params' = FirstParams
    /\ IF idx < Len(aircrafts_to_scrap)
       THEN idx' = idx + 1 /\ pc' = "aircraft"
       ELSE idx' = idx /\ pc' = "merge"

\* lines 195-197: one directional fetch returns directional_flights
DirectionReturns(directional_flights) ==
    /\ history' = <<>> /\ page' = 1 /\ total' = 0
    /\ IF direction = "arrivals"
       THEN /\ arrivals' = directional_flights
            /\ direction' = "departures"
            /\ pc' = "airport"
            /\ UNCHANGED <<idx, scrapped_data, slept, ledger>>
       ELSE /\ arrivals' = <<>>
            /\ AirportCollected(arrivals \o directional_flights)

\* lines 204-221: the request for `page` is answered with success
AirportRequest ==
    /\ pc = "airport" /\ CanRequest
    /\ 1 - page <= MaxRewind
    /\ \E n \in (IF total = 0 THEN 1..MaxTotal ELSE {total}) :
          response' \in AirportResponses(page, n)
    /\ pc' = "airport_page"
    /\ retry' = 0 /\ slept' = 0
    /\ UNCHANGED <<error, runs, xlsx, raw_inputs, airlines, aircrafts_to_scrap,
                   airports_to_scrap, data_in_xlsx, scrapped_data, data_to_append, idx,
                   direction, page, total, params, history, arrivals, prev, ledger>>

\* lines 223-254: the page is processed
AirportPage ==
    /\ pc = "airport_page"
    /\ LET r == AirportLoop(AirportDetails(airports_to_scrap[idx]), direction,
                            date_from, response.data, 1, history)
       IN  IF r.raised
           THEN /\ Raise("TypeError")
                /\ UNCHANGED <<history, page, total, arrivals, direction, idx, scrapped_data,
                               slept, ledger>>
           ELSE /\ UNCHANGED error
                /\ IF r.returned \/ LastPage(response)
                   THEN DirectionReturns(r.history)
                   ELSE /\ history' = r.history
                        /\ page' = NextPage(page)
                        /\ total' = response.total
                        /\ pc' = "airport"
                        /\ UNCHANGED <<arrivals, direction, idx, scrapped_data, slept,
                                       ledger>>
    /\ response' = NoResponse
    /\ UNCHANGED <<runs, xlsx, raw_inputs, airlines, aircrafts_to_scrap, airports_to_scrap,
                   data_in_xlsx, data_to_append, params, retry, prev>>

\* lines 126-133: the request with `params` is answered with success
AircraftRequest ==
    /\ pc = "aircraft" /\ CanRequest
    /\ response' \in AircraftResponses(params.page)
    /\ pc' = "aircraft_page"
    /\ retry' = 0 /\ slept' = 0
    /\ UNCHANGED <<error, runs, xlsx, raw_inputs, airlines, aircrafts_to_scrap,
                   airports_to_scrap, data_in_xlsx, scrapped_data, data_to_append, idx,
                   direction, page, total, params, history, arrivals, prev, ledger>>

\* lines 135-193: the page is processed
AircraftPage ==
    /\ pc = "aircraft_page"
    /\ LET r == AircraftLoop(aircrafts_to_scrap[idx], date_from, response.data, 1, history)
       IN  IF response.nodata
           THEN AircraftCollected(NoData(history)) /\ UNCHANGED error
           ELSE IF r.returned \/ ~response.more
           THEN AircraftCollected(r.history) /\ UNCHANGED error
           ELSE IF response.data = <<>>
           THEN Raise("IndexError")
                /\ UNCHANGED <<history, params, idx, scrapped_data, slept, ledger>>
           ELSE /\ history' = r.history
                /\ params' = NextParams(params, response.data)
                /\ slept' = slept + InterPageSleep
                /\ pc' = "aircraft"
                /\ UNCHANGED <<error, idx, scrapped_data, ledger>>
    /\ response' = NoResponse
    /\ UNCHANGED <<runs, xlsx, raw_inputs, airlines, aircrafts_to_scrap, airports_to_scrap,
                   data_in_xlsx, data_to_append, direction, page, total, arrivals, retry,
                   prev>>

(***************************************************************************)
(* main(), lines 371-376: the delta and write_to_excel.                    *)
(***************************************************************************)
\* mutant of write_to_excel: the workbook is always created anew
write_to_excel_Fresh(file, data) == [exists |-> TRUE, rows |-> <<Keys>> \o Rows(data)]

\* lines 316-329: the file after write_to_excel(filepath, data)
write_to_excel(file, data) ==
    IF file.exists THEN [file EXCEPT !.rows = @ \o Rows(data)]
    ELSE [exists |-> TRUE, rows |-> <<Keys>> \o Rows(data)]

\* lines 371-376; data[0] of line 323 raises IndexError when the file is
\* absent and data is empty
MergeAndWrite ==
    /\ pc = "merge"
    /\ LET delta == DataToAppend(scrapped_data, data_in_xlsx)
       IN  /\ data_to_append' = delta
           /\ IF ~xlsx.exists /\ delta = <<>>
              THEN /\ Raise("IndexError")
                   /\ UNCHANGED <<xlsx, ledger>>
                   /\ prev' = [wrote |-> FALSE, scrapped |-> <<>>]
              ELSE /\ xlsx' = write_to_excel(xlsx, delta)
                   /\ pc' = "done" /\ UNCHANGED error
                   /\ prev' = [wrote |-> TRUE, scrapped |-> scrapped_data]
                   /\ ledger' = [ledger EXCEPT !.saves = @ + 1]
    /\ UNCHANGED <<runs, raw_inputs, airlines, aircrafts_to_scrap, airports_to_scrap,
                   data_in_xlsx, scrapped_data, idx, direction, page, total, params,
                   history, arrivals, response, retry, slept>>

Next ==
    \/ StartRun
    \/ Login
    \/ FailedAttempt
    \/ AirlinesResponse
    \/ FleetResponse
    \/ AirportRequest
    \/ AirportPage
    \/ AircraftRequest
    \/ AircraftPage
    \/ MergeAndWrite

Spec == Init /\ [][Next]_vars

(***************************************************************************)
(* The input resolver on its own: main() has read input.txt and logged in, *)
(* and the airlines table is about to arrive (lines 341-342).              *)
(***************************************************************************)
\* the lines input.txt can hold, after get_raw_inputs: a registration, the
\* lower-cased name of an airline, a prefix of it and a continuation of it
Tokens == {"n1", "aero", "aer", "aeroo"}

TokenLists == UNION {[1..n -> Tokens] : n \in 0..MaxTokens}

ResolverInit ==
    /\ pc = "airlines" /\ error = NoError /\ runs = 1
    /\ xlsx = NoFile
    /\ raw_inputs \in TokenLists /\ airlines = <<>>
    /\ aircrafts_to_scrap = <<>> /\ airports_to_scrap = <<>>
    /\ data_in_xlsx = <<>> /\ scrapped_data = <<>> /\ data_to_append = <<>>
    /\ idx = 0 /\ direction = "" /\ page = 1 /\ total = 0
    /\ params = FirstParams /\ history = <<>> /\ arrivals = <<>>
    /\ response = NoResponse /\ retry = 0 /\ slept = 0
    /\ prev = [wrote |-> FALSE, scrapped |-> <<>>]
    /\ ledger = [xlsx |-> NoFile, saves |-> 0, collected |-> 0]

SpecResolver == ResolverInit /\ [][AirlinesResponse]_vars

(***************************************************************************)
(* The claims.                                                             *)
(***************************************************************************)
\* the records output.xlsx holds
Stored == IF xlsx.exists THEN read_from_excel(xlsx) ELSE <<>>

NoDuplicates(seq) == \A i, j \in 1..Len(seq) : i # j => seq[i] # seq[j]

\* C1: the persisted dataset never holds two records equal on all fields,
\* whatever the targets of the runs so far were.
C1_NoDuplicatePersisted == NoDuplicates(Stored)

\* C2: when the 5th attempt of the fetch of an airport or aircraft target
\* fails, the run is not over: the target adds no record to scrapped_data
\* and the run goes on to the next target or to the delta and its write.
C2_FailedTargetIsSkipped ==
    [][(pc \in {"airport", "aircraft"} /\ retry' = 5)
          => (pc' \in {"airport", "aircraft", "merge"}
              /\ scrapped_data' = scrapped_data)]_vars

\* what C3 says of one step of a call in progress
C3_Step ==
    pc \in Requesting =>
        \/ /\ retry' = retry + 1
           /\ retry' < 5 => (pc' = pc /\ error' = error)
           /\ retry' = 5 => (pc' = "aborted" /\ error'.kind = "Failed retries"
                             /\ error'.at = pc)
        \/ /\ retry' = 0
           /\ pc' # "aborted"
           /\ pc' \in {"airport_page", "aircraft_page"} => response' # NoResponse

\* C3: one call of _get_request issues at most 5 requests: a request goes
\* out only while fewer than 5 were answered with a non-success status;
\* after a non-success answer that is not the 5th the same call is still
\* requesting; a success answer ends the call with that response, and the
\* failure is raised exactly with the 5th non-success answer.
C3_AtMostFiveRequests ==
    /\ [](retry \in 0..5)
    /\ [](pc \in Requesting => retry < 5)
    /\ []((pc = "aborted" /\ error.kind = "Failed retries") <=> retry = 5)
    /\ [][C3_Step]_vars

\* C3 witness: a call that made its 5 requests and raised
C3_Witness == pc = "aborted" /\ error = [kind |-> "Failed retries", at |-> "aircraft"] /\ retry = 5

(***************************************************************************)
(* C4: the date boundary.                                                  *)
(***************************************************************************)
\* the least of the positions hits (0: there is none)
C4_First(hits) == IF hits = {} THEN 0 ELSE CHOOSE i \in hits : \A j \in hits : i <= j

\* hist followed by the flights not yet in it, in order
RECURSIVE C4_Accumulate(_, _)
C4_Accumulate(hist, flights) ==
    IF flights = <<>> THEN hist
    ELSE C4_Accumulate(IF \E i \in 1..Len(hist) : hist[i] = Head(flights)
                       THEN hist ELSE hist \o <<Head(flights)>>, Tail(flights))

C4_AircraftKept(d) == ~AircraftSkips(d.status)
C4_AirportKept(d) == ~AirportSkips(d.status)

\* what the aircraft collector has accumulated when it meets entry k
C4_AircraftSoFar(k) ==
    LET kept == SelectSeq(SubSeq(response.data, 1, k - 1), C4_AircraftKept)
    IN  C4_Accumulate(history, [i \in 1..Len(kept) |->
                        AircraftFlight(aircrafts_to_scrap[idx], AircraftInfo, kept[i])])

\* what a directional fetch has accumulated when it meets entry k
C4_AirportSoFar(k) ==
    LET kept == SelectSeq(SubSeq(response.data, 1, k - 1), C4_AirportKept)
    IN  C4_Accumulate(history, [i \in 1..Len(kept) |->
                        AirportFlight(kept[i], AirportDetails(airports_to_scrap[idx]), direction)])

C4_AircraftStep ==
    LET k == C4_First({i \in 1..Len(response.data) :
                          /\ ~AircraftSkips(response.data[i].status)
                          /\ AircraftDate(response.data[i]) < date_from})
    IN  (pc = "aircraft_page" /\ ~response.nodata /\ k > 0) =>
            /\ scrapped_data' = scrapped_data \o C4_AircraftSoFar(k)
            /\ pc' \in {"aircraft", "merge"}
            /\ pc' = "aircraft" => (idx' = idx + 1 /\ params'.page = 1)

C4_AirportStep ==
    LET k == C4_First({i \in 1..Len(response.data) :
                          /\ ~AirportSkips(response.data[i].status)
                          /\ response.data[i].departure < date_from})
    IN  (pc = "airport_page" /\ k > 0 /\ \A i \in 1..k : response.data[i].departure # 0) =>
            /\ total' = 0
            /\ page' = 1
            /\ pc' # "airport_page"
            /\ IF direction = "arrivals"
               THEN arrivals' = C4_AirportSoFar(k) /\ direction' = "departures"
                    /\ scrapped_data' = scrapped_data
               ELSE scrapped_data' = scrapped_data \o arrivals \o C4_AirportSoFar(k)

\* C4: when a collector meets a non-skipped entry dated before earliestDate
\* it returns at once with exactly what it had accumulated up to that
\* entry: the later entries of the page add nothing and no further page of
\* that target (or direction) is requested, whatever the page reported
\* about more pages.
C4_BoundaryShortCircuit == [][C4_AircraftStep /\ C4_AirportStep]_vars

\* C4 witness: the first page of the first aircraft has arrived; it reports
\* more pages, its first entry is before the boundary and its second is not
C4_Witness ==
    /\ pc = "aircraft_page" /\ params.page = 1 /\ idx = 1
    /\ response = [nodata |-> FALSE, data |-> <<eOld, eLanded>>, more |-> TRUE]

(***************************************************************************)
(* C5: statuses that never become a record.                                *)
(***************************************************************************)
C5_Status(flight) == flight["STATUS"]

\* the records a step of a directional fetch adds anywhere
C5_AirportRecords ==
    Range(history') \cup Range(arrivals')
    \cup {scrapped_data'[i] : i \in (Len(scrapped_data) + 1)..Len(scrapped_data')}

C6_Unseen(flight) == \A i \in 1..Len(data_in_xlsx) : data_in_xlsx[i] # flight

\* C6: the delta is the subsequence of scrapped_data of the records equal to
\* no record of data_in_xlsx, in the order of scrapped_data, a record that
\* occurs twice in scrapped_data being kept twice.
C6_DeltaIsOrderedFilter ==
    (pc = "done" \/ (pc = "aborted" /\ error.at = "merge"))
        => data_to_append = SelectSeq(scrapped_data, C6_Unseen)

\* C6 witness: a delta of two different records, in the order fetched, from
\* a run that also fetched a record already stored
C6_Witness ==
    /\ pc = "done" /\ Len(data_to_append) = 2 /\ data_to_append[1] # data_to_append[2]
    /\ Len(scrapped_data) = 3 /\ scrapped_data[3] \in Range(data_in_xlsx)
    /\ data_to_append = SubSeq(scrapped_data, 1, 2)

\* C7: when a run has written its delta and the next delta is computed from
\* the same scrapped_data, that delta is empty and output.xlsx is not changed.
C7_RerunAppendsNothing ==
    [][(pc = "merge" /\ prev.wrote /\ prev.scrapped = scrapped_data)
          => (data_to_append' = <<>> /\ xlsx' = xlsx /\ pc' = "done")]_vars

\* C7 witness: the second run fetched what the first had fetched and stored,
\* and ended with an empty delta
C7_Witness ==
    /\ pc = "done" /\ runs = 2 /\ Len(scrapped_data) >= 2
    /\ data_in_xlsx = scrapped_data /\ data_to_append = <<>>
    /\ Stored = data_in_xlsx

\* C8: a write to an existing output.xlsx leaves the header and every stored
\* record where they were and puts the delta records after them, in delta order.
C8_WriteAppends ==
    [][(pc = "merge" /\ xlsx.exists)
          => (/\ xlsx'.exists
              /\ xlsx'.rows[1] = xlsx.rows[1]
              /\ Stored' = Stored \o data_to_append'
              /\ SubSeq(xlsx'.rows, 1, Len(xlsx.rows)) = xlsx.rows)]_vars

\* C8 witness: a second run added two records to a file that held some
C8_Witness ==
    /\ pc = "done" /\ runs = 2 /\ data_in_xlsx # <<>> /\ Len(data_to_append) = 2
    /\ Stored = data_in_xlsx \o data_to_append

(***************************************************************************)
(* C9, C10: the pages of a directional fetch.                              *)
(***************************************************************************)
\* C9: after a page that is not the last, a directional fetch asks for the
\* page one further on, so never for a page again nor for an earlier one.
C9_PageAdvancesByOne ==
    [][(pc = "airport_page" /\ pc' = "airport" /\ total' # 0) => page' = page + 1]_vars

\* the page asked for after k more pages that are not the last
RECURSIVE C10_PageAfter(_, _)
C10_PageAfter(p, k) == IF k = 0 THEN p ELSE C10_PageAfter(NextPage(p), k - 1)

\* C10: a directional fetch of a schedule of N pages, the provider reporting
\* the page asked for as the current one, comes to its end: whenever it is
\* about to ask for a page, the page that is reported as page N of N, after
\* which it stops, is that page or one it still gets to.
C10_FetchReachesLastPage ==
    (pc = "airport" /\ total # 0)
        => \E k \in 0..(MaxTotal + MaxRewind) : C10_PageAfter(page, k) = total

(***************************************************************************)
(* C11: the input resolver.                                                *)
(***************************************************************************)
\* the rows of the known-airlines table whose lower-cased name is the token
C11_Matches(t) == {k \in 1..Len(ExistingAirlines) : lower(ExistingAirlines[k][1]) = t}

C11_IsAirline(t) == C11_Matches(t) # {}
C11_IsAircraft(t) == C11_Matches(t) = {}

\* the first row of the table that the token matches
C11_FirstMatch(t) ==
    ExistingAirlines[CHOOSE k \in C11_Matches(t) : \A j \in C11_Matches(t) : k <= j]

\* C11: the resolver puts every token in exactly one output, in input order:
\* a token equal to the lower-cased name of a known airline goes to the
\* airline list as the first (name, handle) pair of that name, every other
\* token, a prefix or a continuation of a name included, goes unchanged to
\* the aircraft list.
C11_ResolverPartitions ==
    [][(pc = "airlines" /\ pc' \notin {"airlines", "aborted"}) =>
          LET named == SelectSeq(raw_inputs, C11_IsAirline)
          IN  /\ airlines' = [i \in 1..Len(named) |-> C11_FirstMatch(named[i])]
              /\ aircrafts_to_scrap' = SelectSeq(raw_inputs, C11_IsAircraft)
              /\ Len(airlines') + Len(aircrafts_to_scrap') = Len(raw_inputs)]_vars

\* C11 witness: a prefix of an airline's name, the name, and a registration
\* have been resolved
C11_Witness ==
    /\ pc = "fleet" /\ raw_inputs = <<"aer", "aero", "n1">>
    /\ airlines = << <<"Aero", "/data/airlines/aero-afl">> >>
    /\ aircrafts_to_scrap = <<"aer", "n1">>

(***************************************************************************)
(* C12: the descriptors of an airport record.                              *)
(***************************************************************************)
\* the descriptor of the queried airport, from the details of the payload
C12_Own ==
    LET details == AirportDetails(airports_to_scrap[idx])
    IN  details.name \o " (" \o details.iata \o "/" \o details.icao \o ")"

\* the record has the airport's own descriptor on the side of direction dir
C12_OwnSide(flight, dir) ==
    IF dir = "arrivals" THEN flight["TO"] = C12_Own ELSE flight["FROM"] = C12_Own

\* the other descriptor of the record is that of the counterpart airport of
\* an entry of the page, or None when that entry names none
C12_OtherSide(flight, dir) ==
    \E k \in 1..Len(response.data) :
        LET a == IF dir = "arrivals" THEN response.data[k].origin
                 ELSE response.data[k].destination
        IN  /\ flight["FLIGHT"] = response.data[k].number
            /\ IF dir = "arrivals" THEN flight["FROM"] = (IF a = <<>> THEN None ELSE city_iata(a[1]))
               ELSE flight["TO"] = (IF a = <<>> THEN None ELSE city_iata(a[1]))

\* the records the directional fetch holds after its page is processed
C12_Produced ==
    IF pc' = "aborted" THEN history
    ELSE IF total' # 0 THEN history'
    ELSE IF direction = "arrivals" THEN arrivals'
    ELSE SubSeq(scrapped_data', Len(scrapped_data) + Len(arrivals) + 1, Len(scrapped_data'))

C12_Step ==
    pc = "airport_page" =>
        /\ Len(C12_Produced) >= Len(history)
        /\ \A i \in 1..Len(C12_Produced) :
              /\ C12_OwnSide(C12_Produced[i], direction)
              /\ IF i <= Len(history) THEN C12_Produced[i] = history[i]
                 ELSE C12_OtherSide(C12_Produced[i], direction)
        /\ direction = "departures" =>
              (SubSeq(scrapped_data', 1, Len(scrapped_data)) = scrapped_data
               /\ (total' = 0 /\ pc' # "aborted") =>
                      SubSeq(scrapped_data', Len(scrapped_data) + 1,
                             Len(scrapped_data) + Len(arrivals)) = arrivals)

\* C12: every record of an arrivals fetch has the queried airport's own
\* descriptor as its TO and every record of a departures fetch has it as its
\* FROM; the other descriptor is that of the entry's counterpart airport,
\* or None when the entry names none.
C12_DirectionDescriptors ==
    /\ [](pc \in {"airport", "airport_page"} =>
            /\ \A f \in Range(history) : C12_OwnSide(f, direction)
            /\ \A f \in Range(arrivals) : C12_OwnSide(f, "arrivals"))
    /\ [][C12_Step]_vars

\* C12 witness: the departures fetch of an airport holds a record and goes on
\* to a further page, its arrivals fetch having returned some
C12_Witness ==
    /\ pc = "airport" /\ direction = "departures" /\ total # 0
    /\ arrivals # <<>> /\ history # <<>>
    /\ history[1]["FROM"] = "Sheremetyevo (SVO/UUEE)" /\ history[1]["TO"] = None
    /\ arrivals[1]["TO"] = "Sheremetyevo (SVO/UUEE)" /\ arrivals[1]["FROM"] = "Sochi (AER)"

(***************************************************************************)
(* C13: the delay between two pages.                                       *)
(***************************************************************************)
\* the aircraft collector is about to issue the first request for a page
\* that is not the first of its target
C13_AircraftNextPage == pc = "aircraft" /\ retry = 0 /\ params.page # 1

\* a directional fetch is about to issue the first request for a page that
\* is not the first of its direction
C13_AirportNextPage == pc = "airport" /\ retry = 0 /\ total # 0

\* the aircraft collector alone observes the delay
C13_AircraftDelay == C13_AircraftNextPage => slept = 3

\* C13: when a collector is about to request a further page of the target
\* (or direction) whose page it has just processed, it has slept the 3
\* seconds of the inter-page delay since that page was requested; this
\* holds for the aircraft collector and for each directional airport fetch.
C13_InterPageDelay == (C13_AircraftNextPage \/ C13_AirportNextPage) => slept = 3

(***************************************************************************)
(* C14: no record twice in what a collector returns.                       *)
(***************************************************************************)
\* what the step of an aircraft page hands to main()
C14_AircraftReturned ==
    SubSeq(scrapped_data', Len(scrapped_data) + 1, Len(scrapped_data'))

\* what the step of a departures page hands over as the departures operand
C14_DeparturesReturned ==
    SubSeq(scrapped_data', Len(scrapped_data) + Len(arrivals) + 1, Len(scrapped_data'))

C14_Step ==
    /\ pc = "aircraft_page" => NoDuplicates(C14_AircraftReturned)
    /\ (pc = "airport_page" /\ direction = "departures") =>
          NoDuplicates(C14_DeparturesReturned)

\* C14: the sequence the aircraft collector returns for a target holds no
\* record twice, whichever pages its records came from, and neither does
\* the sequence one directional airport fetch returns; the same is true of
\* what either has accumulated at any moment.
C14_NoDuplicateReturned ==
    /\ [](NoDuplicates(history) /\ NoDuplicates(arrivals))
    /\ [][C14_Step]_vars

\* C14 witness: the second page of an aircraft repeats, twice, the movement
\* the first page gave
C14_Witness ==
    /\ pc = "aircraft_page" /\ params.page = 2
    /\ history = <<AircraftFlight(aircrafts_to_scrap[idx], AircraftInfo, eLanded)>>
    /\ response.data = <<eTwin, eLanded>> /\ ~response.nodata

(***************************************************************************)
(* C15: a page with no data.                                               *)
(***************************************************************************)
\* C15: when the payload of a page of the aircraft collector has no data,
\* the collector returns the empty sequence and raises nothing, whatever
\* the number of the page and whatever it had accumulated: the target adds
\* no record and main() goes on to the next target or to the delta.
C15_NoDataYieldsEmpty ==
    [][(pc = "aircraft_page" /\ response.nodata) =>
          /\ scrapped_data' = scrapped_data
          /\ error' = NoError /\ pc' # "aborted"
          /\ IF idx < Len(aircrafts_to_scrap)
             THEN pc' = "aircraft" /\ idx' = idx + 1 /\ params'.page = 1 /\ history' = <<>>
             ELSE pc' = "merge"]_vars

\* C15 witness: the second page of an aircraft has no data, the first
\* having given a record
C15_Witness ==
    /\ pc = "aircraft_page" /\ response.nodata /\ params.page = 2 /\ history # <<>>

(***************************************************************************)
(* C16: the parameters of the next page of an aircraft.                    *)
(***************************************************************************)
\* the no-data exit or the date-boundary exit fires on the page in hand
C16_Exit ==
    \/ response.nodata
    \/ \E i \in 1..Len(response.data) :
          /\ response.data[i].status # "Scheduled"
          /\ (IF response.data[i].departure # 0 THEN response.data[i].departure
              ELSE response.data[i].updated) < date_from

\* the step leaves the collector about to request the page after params.page
\* of the same target, with the token and the hint of the claim
C16_RequestsNext ==
    /\ pc' = "aircraft" /\ idx' = idx
    /\ params'.page = params.page + 1
    /\ params'.olderThenFlightId = response.data[Len(response.data)].id
    /\ params'.timestamp = IF response.data[Len(response.data)].departure # 0
                           THEN response.data[Len(response.data)].departure
                           ELSE params.timestamp

\* the step ends the collection of the target
C16_Stops == ~(pc' = "aircraft" /\ idx' = idx)

C16_Step ==
    pc = "aircraft_page" =>
        IF response.more /\ ~C16_Exit THEN C16_RequestsNext ELSE C16_Stops

\* C16 for the pages that hold at least one entry
C16_NonEmptyPages ==
    [][(pc = "aircraft_page" /\ (response.nodata \/ response.data # <<>>))
          => C16_Step]_vars

\* C16: the aircraft collector requests a next page exactly when the page
\* it has processed reported more pages and neither the no-data exit nor the
\* date-boundary exit fired; the next request has the page number one
\* greater, the id of the last entry of the processed page as
\* olderThenFlightId, and as timestamp that entry's scheduled departure when
\* it has one and the timestamp of the previous request when it has none.
C16_NextPageParams == [][C16_Step]_vars

(***************************************************************************)
(* C17: no record older than DATE_FROM.                                    *)
(***************************************************************************)
\* the DATE of the record is a day not before DATE_FROM
C17_NotBefore(flight) == strptime(flight["DATE"]) >= strptime(DATE_FROM)

\* C17: with DATE_FROM set, every record a collector has accumulated or
\* returned, aircraft or airport, arrivals or departures, has a DATE that
\* does not precede DATE_FROM, whatever pages the provider returned and in
\* whatever order their entries came.
C17_NoRecordBeforeEarliest ==
    \A f \in Range(history) \cup Range(arrivals) \cup Range(scrapped_data) : C17_NotBefore(f)

\* C17 witness: an airport has returned a record in each direction and an
\* aircraft has returned one, from a page that went on with an older entry
C17_Witness ==
    /\ pc = "aircraft_page" /\ Len(scrapped_data) = 2
    /\ scrapped_data[1]["TO"] = "Sheremetyevo (SVO/UUEE)"
    /\ scrapped_data[2]["FROM"] = "Sheremetyevo (SVO/UUEE)"
    /\ history # <<>> /\ response.data = <<eNoDeparture, eLanded>> /\ ~response.nodata

(***************************************************************************)
(* C18: output.xlsx changes once, at the end of a run.                     *)
(***************************************************************************)
\* the targets of the run in progress
C18_Targets == Len(airports_to_scrap) + Len(aircrafts_to_scrap)

C18_Step ==
    /\ (xlsx' # xlsx \/ ledger'.saves > ledger.saves) =>
          /\ pc = "merge" /\ pc' = "done"
          /\ ledger.saves = 0 /\ ledger'.saves = 1
          /\ ledger.collected = C18_Targets
    /\ (pc' = "aborted" /\ pc # "aborted") => (xlsx' = ledger'.xlsx /\ xlsx' = xlsx)

\* C18: a run saves output.xlsx at most once, and not before every airport
\* and every aircraft of the run has been collected; a run that ends with an
\* exception, in get_raw_inputs, login, the airlines table, a fleet or the
\* collection of a target, leaves output.xlsx as the run found it.
C18_WrittenOnceAtTheEnd ==
    /\ [](ledger.saves <= 1)
    /\ [](pc # "done" => (xlsx = ledger.xlsx /\ ledger.saves = 0))
    /\ [][C18_Step]_vars

\* C18 witness: a second run found a file, collected an airport and an
\* aircraft, and was ended by the failure of the fetch of a second aircraft
C18_Witness ==
    /\ pc = "aborted" /\ error = [kind |-> "Failed retries", at |-> "aircraft"]
    /\ runs = 2 /\ ledger.xlsx.exists /\ Len(ledger.xlsx.rows) > 1
    /\ ledger.collected = 2 /\ idx = 2 /\ scrapped_data # <<>>
    /\ xlsx = ledger.xlsx

(***************************************************************************)
(* C19: a run with an empty delta.                                         *)
(***************************************************************************)
\* the run is about to compute an empty delta
C19_EmptyDelta == pc = "merge" /\ data_to_append' = <<>>

\* the claim for a run that found output.xlsx
C19_ExistingUnchanged ==
    [][(C19_EmptyDelta /\ xlsx.exists) =>
          (pc' = "done" /\ error' = NoError /\ xlsx' = xlsx)]_vars

\* C19: a run whose delta is empty ends without an exception and leaves the
\* stored records as they were, when output.xlsx exists and also on a first
\* run, when it does not exist and the stored records are taken to be none.
C19_EmptyDeltaCompletes ==
    [][C19_EmptyDelta =>
          (pc' = "done" /\ error' = NoError /\ Stored' = Stored)]_vars

====
